---- MODULE Spec2Model ----
(***************************************************************************)
(* Model of the Nile MCP server tool layer (tools.ts): the credential      *)
(* resolver getConnectionString, the SQL executor executeSQL (current and  *)
(* credentialId variants) and the single-request control-plane tools.      *)
(*                                                                         *)
(* JavaScript strings are sequences of symbols.  A symbol is one character *)
(* where the code looks at characters (":", "/", "@", "_", digits, line    *)
(* breaks, blanks) and an opaque run of other characters elsewhere.        *)
(* Every await of the code is one step of an invocation; what the awaited  *)
(* control-plane request or database call answers is chosen by the         *)
(* environment.                                                            *)
(***************************************************************************)
EXTENDS Integers, Sequences, FiniteSets, TLC

\* ---------------------------------------------------------------- bounds
NumInvocations == 2

MaxCalls == 2

Invocations == 1..NumInvocations

\* ------------------------------------------------------- JavaScript values
\* The value `undefined` (a missing array element or object property).
Undef == <<"undefined">>

\* Number.NaN, the value of parseInt on a string with no leading digit.
NaN == -1

Truthy(s) == s # Undef /\ s # <<>>

Whitespace == {" ", "\n"}

Digits == {"0", "1", "2", "3", "4", "5", "6", "7", "8", "9"}

DigitValue(c) ==
    CASE c = "0" -> 0 [] c = "1" -> 1 [] c = "2" -> 2 [] c = "3" -> 3
      [] c = "4" -> 4 [] c = "5" -> 5 [] c = "6" -> 6 [] c = "7" -> 7
      [] c = "8" -> 8 [] c = "9" -> 9

IsPrefix(p, s) == Len(p) <= Len(s) /\ SubSeq(s, 1, Len(p)) = p

\* String.prototype.indexOf, 1-based: where p first occurs in s, 0 when nowhere.
IndexOf(s, p) ==
    LET at == {k \in 1..(Len(s) - Len(p) + 1) : SubSeq(s, k, k + Len(p) - 1) = p}
    IN  IF at = {} THEN 0 ELSE CHOOSE k \in at : \A j \in at : k <= j

\* String.prototype.includes
Contains(s, p) == IndexOf(s, p) # 0

\* String.prototype.split with a non-empty separator: always at least one piece.
RECURSIVE Split(_, _)
Split(s, sep) ==
    LET k == IndexOf(s, sep)
    IN  IF k = 0 THEN <<s>>
        ELSE <<SubSeq(s, 1, k - 1)>> \o Split(SubSeq(s, k + Len(sep), Len(s)), sep)

\* Array destructuring / indexing: element n (1-based) or undefined.
Nth(arr, n) == IF n <= Len(arr) THEN arr[n] ELSE Undef

RECURSIVE TrimStart(_)
TrimStart(s) ==
    IF s # <<>> /\ Head(s) \in Whitespace THEN TrimStart(Tail(s)) ELSE s

RECURSIVE TrimEnd(_)
TrimEnd(s) ==
    IF s # <<>> /\ s[Len(s)] \in Whitespace
    THEN TrimEnd(SubSeq(s, 1, Len(s) - 1)) ELSE s

\* String.prototype.trim
Trim(s) == TrimEnd(TrimStart(s))

\* parseInt(s): the value of the leading run of digits, NaN when there is none
\* (parseInt(undefined) is NaN as well).
RECURSIVE LeadingDigits(_, _)
LeadingDigits(s, acc) ==
    IF s # <<>> /\ Head(s) \in Digits
    THEN LeadingDigits(Tail(s), 10 * acc + DigitValue(Head(s)))
    ELSE acc

ParseInt(s) ==
    LET t == TrimStart(s)
    IN  IF s = Undef \/ t = <<>> \/ Head(t) \notin Digits THEN NaN
        ELSE LeadingDigits(t, 0)

\* String.prototype.replace with a string pattern: the first occurrence only.
ReplaceFirst(s, pat, rep) ==
    LET k == IndexOf(s, pat)
    IN  IF k = 0 THEN s
        ELSE SubSeq(s, 1, k - 1) \o rep \o SubSeq(s, k + Len(pat), Len(s))

\* String.prototype.replace with a one-character global regular expression.
ReplaceAll(s, c, rep) == [k \in 1..Len(s) |-> IF s[k] = c THEN rep ELSE s[k]]

LowerSymbol(c) ==
    CASE c = "AWS" -> "aws" [] c = "US" -> "us" [] c = "EU" -> "eu"
      [] c = "WEST" -> "west" [] c = "CENTRAL" -> "central"
      [] OTHER -> c

\* String.prototype.toLowerCase
ToLowerCase(s) == [k \in 1..Len(s) |-> LowerSymbol(s[k])]

\* ------------------------------------------------------------ tool results
\* CallToolResult with its single text content item.
ToolResult(text, isError) == [text |-> text, isError |-> isError]

NoResult == [text |-> Undef, isError |-> FALSE]

\* A thrown or rejected value: inst is `error instanceof Error`.
ErrorValue(inst, message, detail, hint) ==
    [inst |-> inst, message |-> message, detail |-> detail, hint |-> hint]

TypeError(what) == ErrorValue(TRUE, <<"Cannot read properties of undefined">> \o what, Undef, Undef)

NoError == ErrorValue(FALSE, Undef, Undef, Undef)

\* The outer catch of every tool: error instanceof Error ? error.message : fallback
CatchResult(error, fallback) ==
    ToolResult(IF error.inst THEN error.message ELSE <<fallback>>, TRUE)

\* ------------------------------------------------- control-plane responses
\* What `await fetch(...)` followed by `await response.json()` yields: the
\* pair rejects (kind "reject") or gives the ok flag and the JSON payload.
\* A payload carries the properties the tools read; the others are undefined.
Payload(message, id, username, password, name, region, dbHost) ==
    [message |-> message, id |-> id, username |-> username, password |-> password,
     name |-> name, region |-> region, dbHost |-> dbHost]

NoPayload == Payload(Undef, Undef, Undef, Undef, Undef, Undef, Undef)

ErrorPayload(message) == Payload(message, Undef, Undef, Undef, Undef, Undef, Undef)

CredentialPayload(id, username, password) ==
    Payload(Undef, id, username, password, Undef, Undef, Undef)

DatabasePayload(name, region, dbHost) ==
    Payload(Undef, Undef, Undef, Undef, name, region, dbHost)

Rejected(error) ==
    [kind |-> "reject", ok |-> FALSE, error |-> error,
     data |-> NoPayload]

Response(ok, data) == [kind |-> "response", ok |-> ok, error |-> NoError, data |-> data]

\* No answer yet.
NoResponse == [kind |-> "none", ok |-> FALSE, error |-> NoError, data |-> NoPayload]

\* ---------------------------------------------------- getConnectionString
ConnectionStringText(connectionString) ==
    <<"Connection string:", "\n">> \o connectionString
        \o <<"\n", "\n", "IMPORTANT: This connection string contains credentials that will not be shown again.">>

DefaultPort == <<"5", "4", "3", "2">>

\* (mutant) replace('_', '-') without the global flag: only the first underscore.
RegionHostFirstUnderscoreOnly(region) ==
    ToLowerCase(ReplaceFirst(ReplaceFirst(region, <<"AWS", "_">>, <<>>), <<"_">>, <<"-">>))
        \o <<".db.thenile.dev">>

\* Lines 982-983: the host is computed from the region code.
RegionHost(region) ==
    LET r == ToLowerCase(ReplaceAll(ReplaceFirst(region, <<"AWS", "_">>, <<>>), "_", "-"))
    IN  ToLowerCase(r) \o <<".db.thenile.dev">>

\* (mutant) the port left out of the connection string.
BuildConnectionStringNoPort(user, password, host, databaseName) ==
    <<"postgres", ":", "/", "/">> \o user \o <<":">> \o password \o <<"@">> \o host
        \o <<"/">> \o databaseName

\* Line 984: the connection string template.
BuildConnectionString(user, password, host, databaseName) ==
    <<"postgres", ":", "/", "/">> \o user \o <<":">> \o password \o <<"@">> \o host
        \o <<":">> \o DefaultPort \o <<"/">> \o databaseName

\* (mutant) the upstream message left out of the error text.
GcsAfterCredentialNoMessage(resp) ==
    IF resp.kind = "reject"
    THEN [done |-> TRUE,
          result |-> CatchResult(resp.error, "Unknown error occurred while getting connection string")]
    ELSE IF ~resp.ok
    THEN [done |-> TRUE, result |-> ToolResult(<<"Failed to create credentials">>, TRUE)]
    ELSE IF ~Truthy(resp.data.password)
    THEN [done |-> TRUE,
          result |-> ToolResult(<<"Failed to get credentials: Password not found in response">>, TRUE)]
    ELSE [done |-> FALSE, result |-> NoResult]

\* (mutant) no test for a missing password.
GcsAfterCredentialNoPasswordCheck(resp) ==
    IF resp.kind = "reject"
    THEN [done |-> TRUE,
          result |-> CatchResult(resp.error, "Unknown error occurred while getting connection string")]
    ELSE IF ~resp.ok
    THEN [done |-> TRUE,
          result |-> ToolResult(<<"Failed to create credentials: ">> \o resp.data.message, TRUE)]
    ELSE [done |-> FALSE, result |-> NoResult]

\* The step after the create-credential request: either a result to return
\* (done) or the credential to carry to the fetch-database request.
GcsAfterCredential(resp) ==
    IF resp.kind = "reject"
    THEN [done |-> TRUE,
          result |-> CatchResult(resp.error, "Unknown error occurred while getting connection string")]
    ELSE IF ~resp.ok
    THEN [done |-> TRUE,
          result |-> ToolResult(<<"Failed to create credentials: ">> \o resp.data.message, TRUE)]
    ELSE IF ~Truthy(resp.data.password)
    THEN [done |-> TRUE,
          result |-> ToolResult(<<"Failed to get credentials: Password not found in response">>, TRUE)]
    ELSE [done |-> FALSE, result |-> NoResult]

\* The step after the fetch-database request: the result getConnectionString returns.
GcsAfterDatabase(user_id, password, databaseName, resp) ==
    IF resp.kind = "reject"
    THEN CatchResult(resp.error, "Unknown error occurred while getting connection string")
    ELSE IF ~resp.ok
    THEN ToolResult(<<"Failed to get database details: ">> \o resp.data.message, TRUE)
    ELSE IF resp.data.region = Undef
    THEN CatchResult(TypeError(<<" (reading 'replace')">>),
                     "Unknown error occurred while getting connection string")
    ELSE ToolResult(ConnectionStringText(
                        BuildConnectionString(user_id, password,
                                              RegionHost(resp.data.region), databaseName)),
                    FALSE)

\* ------------------------------------------------------------- executeSQL
\* Lines 1034-1061: the connection string is taken back out of the result
\* text and cut into the pg.Client configuration.  threw is TRUE when trim or
\* split is applied to undefined.
ClientConfig(user, password, host, port, database) ==
    [user |-> user, password |-> password, host |-> host, port |-> port, database |-> database,
     connectionString |-> Undef]

NoConfig == ClientConfig(Undef, Undef, Undef, NaN, Undef)

\* deleteTenant hands the connection string itself to pg.Client.
StringConfig(connectionString) == [NoConfig EXCEPT !.connectionString = connectionString]

ParseConnResult(resultText) ==
    LET lines == Split(resultText, <<"\n">>)
        line == Nth(lines, 2)
        connectionString == Trim(line)
        schemeRest == Split(connectionString, <<":", "/", "/">>)
        userPasswordHost == Nth(schemeRest, 2)
    IN  IF line = Undef \/ userPasswordHost = Undef
        THEN [threw |-> TRUE, config |-> NoConfig, port |-> Undef]
        ELSE LET atParts == Split(userPasswordHost, <<"@">>)
                 userPassword == atParts[1]
                 hostDbname == Nth(atParts, 2)
                 colonParts == Split(userPassword, <<":">>)
             IN  IF hostDbname = Undef
                 THEN [threw |-> TRUE, config |-> NoConfig, port |-> Undef]
                 ELSE LET slashParts == Split(hostDbname, <<"/">>)
                          hostPortParts == Split(slashParts[1], <<":">>)
                      IN  [threw |-> FALSE,
                           config |-> ClientConfig(colonParts[1], Nth(colonParts, 2),
                                                   hostPortParts[1],
                                                   ParseInt(Nth(hostPortParts, 2)),
                                                   Nth(slashParts, 2)),
                           port |-> Nth(hostPortParts, 2)]

\* Array.prototype.join
RECURSIVE Join(_, _)
Join(strs, sep) ==
    IF strs = <<>> THEN <<>>
    ELSE IF Len(strs) = 1 THEN strs[1]
    ELSE strs[1] \o sep \o Join(Tail(strs), sep)

\* SqlQueryResult: fields is the sequence of field names, a row maps each
\* field name to its value (Undef for SQL NULL), rowCount is a number or
\* NullCount (the engine reported no count).
NullCount == -1

QueryResult(fields, rows, rowCount) == [fields |-> fields, rows |-> rows, rowCount |-> rowCount]

\* String(row[f.name] ?? 'NULL')
CellText(row, name) ==
    IF name \in DOMAIN row /\ row[name] # Undef THEN row[name] ELSE <<"NULL">>

RowText(queryResult, row) ==
    <<"|", " ">>
        \o Join([k \in 1..Len(queryResult.fields) |-> CellText(row, queryResult.fields[k])],
                <<" ", "|", " ">>)
        \o <<" ", "|">>

\* (mutant) the summary counts the rows instead of printing rowCount.
RenderTableCountsRows(queryResult) ==
    LET f == queryResult.fields
        header == IF Len(f) > 0
                  THEN <<"|", " ">> \o Join([k \in 1..Len(f) |-> <<f[k]>>], <<" ", "|", " ">>)
                           \o <<" ", "|", "\n">>
                           \o <<"|">> \o Join([k \in 1..Len(f) |-> <<"---">>], <<"|">>)
                           \o <<"|", "\n">>
                  ELSE <<>>
        body == IF Len(queryResult.rows) > 0
                THEN Join([k \in 1..Len(queryResult.rows) |-> RowText(queryResult, queryResult.rows[k])],
                          <<"\n">>)
                ELSE <<>>
    IN  header \o body \o <<"\n", "\n", ToString(Len(queryResult.rows)), " rows returned.">>

\* Lines 1087-1104: header, separator, one line per row, then the summary.
RenderTable(queryResult) ==
    LET f == queryResult.fields
        header == IF Len(f) > 0
                  THEN <<"|", " ">> \o Join([k \in 1..Len(f) |-> <<f[k]>>], <<" ", "|", " ">>)
                           \o <<" ", "|", "\n">>
                           \o <<"|">> \o Join([k \in 1..Len(f) |-> <<"---">>], <<"|">>)
                           \o <<"|", "\n">>
                  ELSE <<>>
        body == IF Len(queryResult.rows) > 0
                THEN Join([k \in 1..Len(queryResult.rows) |-> RowText(queryResult, queryResult.rows[k])],
                          <<"\n">>)
                ELSE <<>>
        count == IF queryResult.rowCount = NullCount THEN 0 ELSE queryResult.rowCount
    IN  header \o body \o <<"\n", "\n", ToString(count), " rows returned.">>

\* Lines 1114-1128: the inner catch, shared by a rejected connect and a rejected query.
QueryErrorText(prefix, pgError) ==
    <<prefix>>
        \o (IF Truthy(pgError.message) THEN <<": ">> \o pgError.message ELSE <<>>)
        \o (IF Truthy(pgError.detail) THEN <<"\n", "Detail: ">> \o pgError.detail ELSE <<>>)
        \o (IF Truthy(pgError.hint) THEN <<"\n", "Hint: ">> \o pgError.hint ELSE <<>>)

\* What an awaited pg call settles to.
NoValue == QueryResult(<<>>, <<>>, NullCount)

Resolved(value) == [kind |-> "resolved", ok |-> TRUE, error |-> NoError, value |-> value]

RejectedWith(error) == [kind |-> "rejected", ok |-> FALSE, error |-> error, value |-> NoValue]

NoOutcome == [kind |-> "none", ok |-> FALSE, error |-> NoError, value |-> NoValue]

\* ------------------------------------------------------------ environment
\* What the caller may pass and what the control plane and the database may
\* answer.
DatabaseNames == {<<"test-db">>}

Queries == {<<"SELECT * FROM test">>}

\* connectionString arguments of execute-sql: absent, well formed, well formed
\* with a password holding a colon, and one with each part missing.
Override(user, password, host, port, database) ==
    <<"postgres", ":", "/", "/">> \o user \o <<":">> \o password \o <<"@">> \o host
        \o <<":">> \o port \o <<"/">> \o database

\* The descriptors a caller may put into an override; a password may hold a
\* colon (RFC 3986 userinfo).
OverrideDescriptors ==
    { [user |-> <<"u1">>, password |-> pw, host |-> <<"db.example.dev">>,
       port |-> <<"6", "5", "4", "3">>, database |-> <<"test-db">>] :
        pw \in {<<"pw1">>, <<"p", ":", "w">>} }

OverrideOf(d) == Override(d.user, d.password, d.host, d.port, d.database)

WellFormedOverrides == { OverrideOf(d) : d \in OverrideDescriptors }

MalformedOverrides ==
    { <<"u1", ":", "pw1", "@", "db.example.dev", ":", "5", "4", "3", "2", "/", "test-db">>,
      <<"postgres", ":", "/", "/", ":", "pw1", "@", "db.example.dev", ":", "5", "4", "3", "2", "/", "test-db">>,
      <<"postgres", ":", "/", "/", "u1", "@", "db.example.dev", ":", "5", "4", "3", "2", "/", "test-db">>,
      <<"postgres", ":", "/", "/", "u1", ":", "pw1", "@", ":", "5", "4", "3", "2", "/", "test-db">>,
      <<"postgres", ":", "/", "/", "u1", ":", "pw1", "@", "db.example.dev", "/", "test-db">>,
      <<"postgres", ":", "/", "/", "u1", ":", "pw1", "@", "db.example.dev", ":", "5", "4", "3", "2">>,
      <<"postgres", ":", "/", "/", "db.example.dev", ":", "5", "4", "3", "2", "/", "test-db">> }

Overrides == {Undef, <<>>} \cup WellFormedOverrides \cup MalformedOverrides

CredentialIds == {Undef, <<"cred-1">>}

Tools == {"execute-sql", "execute-sql-v1", "get-connection-string", "delete-database",
          "delete-tenant"}

Args(databaseName, query, connectionString, credentialId, tenantId) ==
    [databaseName |-> databaseName, query |-> query,
     connectionString |-> connectionString, credentialId |-> credentialId,
     tenantId |-> tenantId]

NoArgs == Args(Undef, Undef, Undef, Undef, Undef)

TenantIds == {<<"tenant-1">>}

\* Argument objects a peer may send that lack a required property: nothing at
\* all, no databaseName, or nothing but the databaseName.
RawArgs ==
    { NoArgs,
      Args(Undef, <<"SELECT * FROM test">>, Undef, Undef, Undef),
      Args(<<"test-db">>, Undef, Undef, Undef, Undef) }

\* The names a peer may call: the registered ones and one that is not.
ToolNames == Tools \cup {"does-not-exist"}

\* (mutant) execute-sql registered without its schema: any argument object passes.
ToolArgsUnchecked(t) ==
    CASE t = "execute-sql" ->
            { Args(d, q, cs, Undef, Undef) : d \in DatabaseNames, q \in Queries, cs \in Overrides }
                \cup RawArgs
      [] t = "execute-sql-v1" ->
            { Args(d, q, Undef, c, Undef) : d \in DatabaseNames, q \in Queries, c \in CredentialIds }
      [] t = "delete-tenant" ->
            { Args(d, Undef, Undef, Undef, id) : d \in DatabaseNames, id \in TenantIds }
      [] OTHER ->
            { Args(d, Undef, Undef, Undef, Undef) : d \in DatabaseNames \cup {<<"my", "-", "app">>} }

\* The arguments the schema of each tool admits.
ToolArgs(t) ==
    CASE t = "execute-sql" ->
            { Args(d, q, cs, Undef, Undef) : d \in DatabaseNames, q \in Queries, cs \in Overrides }
      [] t = "execute-sql-v1" ->
            { Args(d, q, Undef, c, Undef) : d \in DatabaseNames, q \in Queries, c \in CredentialIds }
      [] t = "delete-tenant" ->
            { Args(d, Undef, Undef, Undef, id) : d \in DatabaseNames, id \in TenantIds }
      [] OTHER ->
            { Args(d, Undef, Undef, Undef, Undef) : d \in DatabaseNames \cup {<<"my", "-", "app">>} }

UpstreamMessages == {<<"Database not found">>, <<"Unauthorized">>}

NetworkError == ErrorValue(TRUE, <<"fetch failed">>, Undef, Undef)

Regions == {<<"AWS", "_", "US", "_", "WEST", "_", "2">>, <<"AWS", "_", "EU", "_", "CENTRAL", "_", "1">>}

ErrorResponses == {Rejected(NetworkError)} \cup { Response(FALSE, ErrorPayload(m)) : m \in UpstreamMessages }

CredentialResponses ==
    ErrorResponses
        \cup { Response(TRUE, CredentialPayload(<<"cred-123">>, <<"user1">>, pw)) :
                 pw \in {<<"pw">>, <<"p", ":", "w">>, Undef} }

DatabaseResponses ==
    ErrorResponses
        \cup { Response(TRUE, DatabasePayload(<<"test-db">>, r, h)) :
                 r \in Regions, h \in {<<"us", "-", "west", "-", "2", ".db.example.dev">>, Undef} }

DeleteResponses == ErrorResponses \cup {Response(TRUE, NoPayload)}

ConnectErrors == {ErrorValue(TRUE, <<"Connection refused">>, Undef, Undef)}

QueryErrors ==
    { ErrorValue(FALSE, <<"syntax error at or near \"SLECT\"">>, d, h) :
        d \in {Undef, <<"some detail">>}, h \in {Undef, <<"Perhaps you meant \"SELECT\"">>} }

EndErrors == {ErrorValue(TRUE, <<"Connection terminated unexpectedly">>, Undef, Undef)}

MaxFields == 2

MaxRows == 2

FieldName(k) == CASE k = 1 -> "id" [] k = 2 -> "name" [] OTHER -> "col" \o ToString(k)

FieldNames == [k \in 1..MaxFields |-> FieldName(k)]

Values == {<<"1">>, Undef}

\* The engine's rowCount: none, the number of rows returned, or the number of
\* rows a statement affected (which need not be the number it returned).
RowCounts(r) == {NullCount, r, r + 1}

QueryResults ==
    UNION { { QueryResult(SubSeq(FieldNames, 1, f), [k \in 1..r |-> [n \in {FieldNames[m] : m \in 1..MaxFields} |-> v]], c) :
                c \in RowCounts(r) } :
            f \in 0..MaxFields, r \in 0..MaxRows, v \in Values }

\* ------------------------------------------------------------------ state
VARIABLES
    pc,        \* pc[i]: the await invocation i is suspended at, "idle" or "done"
    tool,      \* tool[i]: the tool invocation i runs
    args,      \* args[i]: its validated arguments
    local,     \* local[i]: the handler's locals that live across an await
    client,    \* client[i]: the pg.Client the invocation created (id 0: none)
    pending,   \* pending[i]: the value a return inside try/catch left for after finally
    result,    \* result[i]: the CallToolResult the handler returned
    calls,     \* calls[i]: how many external operations of each kind it issued
    conns,     \* every pg.Client ever created, in creation order
    started,   \* how many tool calls the server has received
    callNo,    \* callNo[i]: which of them invocation i is (0: none)
    env,       \* env[i]: what each await of invocation i settled to
    logged,    \* logged[i]: what invocation i handed to the logger of its arguments
               \* and of the connection descriptor
    transport,     \* SSEHandler.transport: 0 (null) or the transport of stream k
    sseResponse,   \* SSEHandler.sseResponse: 0 (null) or the response of stream k
    streams,       \* one record per GET /sse request, in arrival order
    post,          \* the latest POST /messages request, as the handler answered it
    stop           \* where SSEHandler.stop() is, and the transport it found stored

\* The fields of the SSE binding and the record of its requests.
sseVars == <<transport, sseResponse, streams, post, stop>>

\* A POST /messages request as the handler answered it: the token it carried,
\* the status the guards chose, the transport its message was handed to (0:
\* none), the streams that were open when it arrived, and the stream an error
\* frame was written to when handlePostMessage threw (0: none); further the
\* statuses written to the request's own response, where the request is
\* ("handling": awaiting handlePostMessage, "dispatched": the message reached
\* the server, "failed": handlePostMessage threw, "done"), and the stream the
\* result frame was emitted on (0: none).
PostRecord(token, status, to, open, errorTo) ==
    [token |-> token, status |-> status, to |-> to, open |-> open, errorTo |-> errorTo,
     responses |-> IF status = 0 THEN <<>> ELSE <<status>>,
     at |-> IF to = 0 THEN "done" ELSE "handling",
     delivered |-> 0]

\* No POST yet.
NoPost == PostRecord(0, 0, 0, {}, 0)

\* SSEHandler.stop(): not called ("idle"), awaiting server.close() for the
\* transport it found stored ("closing"), returned after that ("closed"),
\* returned at once because no transport was stored ("skipped"), or rejected
\* because server.close() did ("rejected").
StopRecord(at, found) == [at |-> at, found |-> found]

NotStopped == StopRecord("idle", 0)

\* The state of the tool layer.
toolVars == <<pc, tool, args, local, client, pending, result, calls, conns, started, callNo, env,
              logged>>

vars == <<pc, tool, args, local, client, pending, result, calls, conns, started, callNo, env, logged,
          transport, sseResponse, streams, post, stop>>

Locals(user, password, dbHost, dbName) ==
    [user |-> user, password |-> password, dbHost |-> dbHost, dbName |-> dbName]

NoLocals == Locals(Undef, Undef, Undef, Undef)

NoClient == [id |-> 0, config |-> NoConfig]

NoEnv == [request |-> NoResponse, credential |-> NoResponse, database |-> NoResponse,
          connect |-> NoOutcome, query |-> NoOutcome, end |-> NoOutcome]

Settle(i, await, answer) == env' = [env EXCEPT ![i][await] = answer]

NoCalls == [create |-> 0, fetchDb |-> 0, fetchCred |-> 0, request |-> 0,
            connect |-> 0, query |-> 0, end |-> 0]

\* A pg.Client: the call that created it, whether connect resolved, how often
\* end was called, and which calls called a method on it.
Conn(owner) == [owner |-> owner, connected |-> FALSE, ends |-> 0, users |-> {}]

Init ==
    /\ pc = [i \in Invocations |-> "idle"]
    /\ tool = [i \in Invocations |-> "none"]
    /\ args = [i \in Invocations |-> NoArgs]
    /\ local = [i \in Invocations |-> NoLocals]
    /\ client = [i \in Invocations |-> NoClient]
    /\ pending = [i \in Invocations |-> NoResult]
    /\ result = [i \in Invocations |-> NoResult]
    /\ calls = [i \in Invocations |-> NoCalls]
    /\ conns = <<>>
    /\ started = 0
    /\ callNo = [i \in Invocations |-> 0]
    /\ env = [i \in Invocations |-> NoEnv]
    /\ logged = [i \in Invocations |-> {}]
    /\ transport = 0
    /\ sseResponse = 0
    /\ streams = <<>>
    /\ post = NoPost
    /\ stop = NotStopped

\* ---------------------------------------------------------------- actions
Done(i, r) ==
    /\ pc' = [pc EXCEPT ![i] = "done"]
    /\ result' = [result EXCEPT ![i] = r]

\* One more external operation of the kind, on top of the counts in base.
Count(base, i, kind) == [base EXCEPT ![i][kind] = @ + 1]

\* The call running in slot i (the one just arriving when the slot is free).
Caller(i) == IF pc[i] \in {"idle", "done", "rejected"} THEN started + 1 ELSE callNo[i]

\* (mutant) one module-wide client shared by every call.
SharedClientId(table) == 1

\* The identity of the object `new pg.Client(...)` yields: one nobody holds yet.
NewClientId(table) == Len(table) + 1

\* new pg.Client(config) followed by `await client.connect()`.
NewClient(base, i, config) ==
    LET id == NewClientId(conns)
    IN  /\ conns' = IF id > Len(conns)
                    THEN Append(conns, [Conn(Caller(i)) EXCEPT !.users = {Caller(i)}])
                    ELSE [conns EXCEPT ![id].users = @ \cup {Caller(i)}]
        /\ client' = [client EXCEPT ![i] = [id |-> id, config |-> config]]
        /\ calls' = Count(base, i, "connect")
        /\ pc' = [pc EXCEPT ![i] = "connect"]

\* The text the inner catch of a tool starts its message with.
InnerCatchPrefix(t) ==
    IF t = "delete-tenant" THEN "Failed to delete tenant" ELSE "Query execution failed"

\* The text the outer catch of a tool falls back to.
OuterCatchFallback(t) ==
    IF t = "delete-tenant" THEN "Unknown error occurred while deleting tenant"
    ELSE "Unknown error occurred while executing SQL query"

\* What the try block returns once the query has resolved (a TypeError thrown
\* there lands in the inner catch).
QuerySuccess(t, a, value) ==
    IF t = "delete-tenant"
    THEN IF value.rowCount = 0
         THEN ToolResult(<<"Tenant with ID ">> \o a.tenantId \o <<" not found">>, TRUE)
         ELSE IF value.rows = <<>>
         THEN ToolResult(QueryErrorText(InnerCatchPrefix(t), TypeError(<<" (reading 'name')">>)), TRUE)
         ELSE ToolResult(<<"Tenant \"">> \o value.rows[1]["name"] \o <<"\" (ID: ">>
                             \o value.rows[1]["id"] \o <<") has been successfully deleted.">>,
                         FALSE)
    ELSE IF value.fields = Undef
         THEN ToolResult(QueryErrorText(InnerCatchPrefix(t), TypeError(<<" (reading 'map')">>)), TRUE)
         ELSE ToolResult(RenderTable(value), FALSE)

\* deleteTenant lines 1244-1257: the connection string line goes to pg.Client as it is.
TenantConnect(base, i, resultText) ==
    /\ NewClient(base, i, StringConfig(Trim(Nth(Split(resultText, <<"\n">>), 2))))
    /\ result' = [result EXCEPT ![i] = NoResult]

\* One value handed to the logger, under the label it is logged with.
LogEntry(label, value) == [label |-> label, value |-> value]

\* server.ts: every registered handler starts with
\* log.debug('Tool ... called with args:', args).
ArgsLog(a) ==
    { LogEntry(f, a[f]) : f \in {g \in DOMAIN a : a[g] # Undef} }

\* executeSQL lines 1045-1049: each part cut out of the connection string is
\* logged (nothing when the cutting threw before).
ParseLog(resultText) ==
    LET p == ParseConnResult(resultText)
    IN  IF p.threw THEN {}
        ELSE { LogEntry("User", p.config.user), LogEntry("Password", p.config.password),
               LogEntry("Host", p.config.host), LogEntry("Port", p.port),
               LogEntry("Database", p.config.database) }

\* getConnectionString lines 985-990: the generated string's host, user and
\* database are logged, the password is not.
GcsLog(user_id, region, databaseName) ==
    { LogEntry("host", RegionHost(region)), LogEntry("user", user_id),
      LogEntry("database", databaseName) }

\* executeSQL lines 1034-1064: from the resolver's text to the suspended connect.
ParseAndConnect(base, i, resultText) ==
    LET p == ParseConnResult(resultText)
    IN  IF p.threw
        THEN /\ Done(i, CatchResult(TypeError(<<" (reading 'split')">>),
                                    "Unknown error occurred while executing SQL query"))
             /\ client' = [client EXCEPT ![i] = NoClient]
             /\ calls' = base
             /\ UNCHANGED conns
        ELSE /\ NewClient(base, i, p.config)
             /\ result' = [result EXCEPT ![i] = NoResult]

FirstAwait(t) ==
    CASE t = "execute-sql-v1" -> "v1-database"
      [] t = "delete-database" -> "request"
      [] OTHER -> "credential"

FirstRequest(t) ==
    CASE t = "execute-sql-v1" -> "fetchDb"
      [] t = "delete-database" -> "request"
      [] OTHER -> "create"

\* A tool is called (in a slot that is free): the handler runs up to its
\* first await.
Call(i, t, a) ==
    /\ pc[i] \in {"idle", "done", "rejected"}
    /\ started < MaxCalls
    /\ started' = started + 1
    /\ callNo' = [callNo EXCEPT ![i] = started + 1]
    /\ env' = [env EXCEPT ![i] = NoEnv]
    /\ tool' = [tool EXCEPT ![i] = t]
    /\ args' = [args EXCEPT ![i] = a]
    /\ local' = [local EXCEPT ![i] = NoLocals]
    /\ pending' = [pending EXCEPT ![i] = NoResult]
    /\ logged' = [logged EXCEPT ![i] =
                     ArgsLog(a) \cup (IF t = "execute-sql" /\ Truthy(a.connectionString)
                                      THEN ParseLog(ConnectionStringText(a.connectionString))
                                      ELSE {})]
    /\ LET base == [calls EXCEPT ![i] = NoCalls]
       IN  IF t = "execute-sql" /\ Truthy(a.connectionString)
           THEN ParseAndConnect(base, i, ConnectionStringText(a.connectionString))
           ELSE /\ pc' = [pc EXCEPT ![i] = FirstAwait(t)]
                /\ calls' = Count(base, i, FirstRequest(t))
                /\ client' = [client EXCEPT ![i] = NoClient]
                /\ result' = [result EXCEPT ![i] = NoResult]
                /\ UNCHANGED conns
    /\ UNCHANGED sseVars

\* A call the dispatcher of the protocol library turns down: the name is not
\* registered or the arguments do not satisfy the registered schema.  The
\* peer gets a protocol error and no handler runs.
Reject(i, name, a) ==
    /\ pc[i] \in {"idle", "done", "rejected"}
    /\ started < MaxCalls
    /\ name \notin Tools \/ a \notin ToolArgs(name)
    /\ started' = started + 1
    /\ callNo' = [callNo EXCEPT ![i] = started + 1]
    /\ pc' = [pc EXCEPT ![i] = "rejected"]
    /\ tool' = [tool EXCEPT ![i] = name]
    /\ args' = [args EXCEPT ![i] = a]
    /\ env' = [env EXCEPT ![i] = NoEnv]
    /\ local' = [local EXCEPT ![i] = NoLocals]
    /\ pending' = [pending EXCEPT ![i] = NoResult]
    /\ result' = [result EXCEPT ![i] = NoResult]
    /\ client' = [client EXCEPT ![i] = NoClient]
    /\ calls' = [calls EXCEPT ![i] = NoCalls]
    /\ logged' = [logged EXCEPT ![i] = {}]
    /\ UNCHANGED <<conns, sseVars>>

\* deleteDatabase: the DELETE request answers.
RequestResponse(i, resp) ==
    /\ pc[i] = "request"
    /\ Settle(i, "request", resp)
    /\ Done(i, IF resp.kind = "reject"
               THEN CatchResult(resp.error, "Unknown error occurred while deleting database")
               ELSE IF ~resp.ok
               THEN ToolResult(<<"Failed to delete database: ">> \o resp.data.message, TRUE)
               ELSE ToolResult(<<"Database \"">> \o args[i].databaseName
                                   \o <<"\" has been successfully deleted.">>, FALSE))
    /\ UNCHANGED <<sseVars, logged, started, callNo, tool, args, local, client, pending, calls, conns>>

\* getConnectionString: the create-credential request answers.
CredentialResponse(i, resp) ==
    /\ pc[i] = "credential"
    /\ Settle(i, "credential", resp)
    /\ LET r == GcsAfterCredential(resp)
       IN  IF r.done
           THEN /\ Done(i, r.result)
                /\ UNCHANGED <<local, calls>>
           ELSE /\ local' = [local EXCEPT ![i] =
                               Locals(resp.data.id, resp.data.password, Undef, Undef)]
                /\ calls' = Count(calls, i, "fetchDb")
                /\ pc' = [pc EXCEPT ![i] = "database"]
                /\ UNCHANGED result
    /\ UNCHANGED <<sseVars, logged, started, callNo, tool, args, client, pending, conns>>

\* (mutant) executeSQL without the isError test on connResult.
IgnoresResolverError(t, r) == t = "get-connection-string"

\* Whether the resolver's result is what the tool returns: it is the tool
\* itself, or executeSQL's `if (connResult.isError) return connResult`.
ReturnsResolverResult(t, r) == t = "get-connection-string" \/ r.isError

\* getConnectionString: the fetch-database request answers; executeSQL goes on
\* with the text it returns.
DatabaseResponse(i, resp) ==
    /\ pc[i] = "database"
    /\ Settle(i, "database", resp)
    /\ LET r == GcsAfterDatabase(local[i].user, local[i].password, args[i].databaseName, resp)
       IN  IF ReturnsResolverResult(tool[i], r)
           THEN /\ Done(i, r)
                /\ UNCHANGED <<client, calls, conns>>
           ELSE IF tool[i] = "delete-tenant"
           THEN TenantConnect(calls, i, r.text)
           ELSE ParseAndConnect(calls, i, r.text)
    /\ logged' = [logged EXCEPT ![i] =
                     IF resp.kind = "response" /\ resp.ok /\ resp.data.region # Undef
                     THEN @ \cup GcsLog(local[i].user, resp.data.region, args[i].databaseName)
                            \cup (IF tool[i] = "execute-sql"
                                  THEN ParseLog(GcsAfterDatabase(local[i].user, local[i].password,
                                                                 args[i].databaseName, resp).text)
                                  ELSE {})
                     ELSE @]
    /\ UNCHANGED <<sseVars, started, callNo, tool, args, local, pending>>

\* executeSQL (credentialId variant): the fetch-database request answers.
V1DatabaseResponse(i, resp) ==
    /\ pc[i] = "v1-database"
    /\ Settle(i, "database", resp)
    /\ IF resp.kind = "reject"
       THEN /\ Done(i, CatchResult(resp.error, "Unknown error occurred while executing SQL query"))
            /\ UNCHANGED <<local, calls>>
       ELSE IF ~resp.ok
       THEN /\ Done(i, ToolResult(<<"Failed to get database details: ">> \o resp.data.message, TRUE))
            /\ UNCHANGED <<local, calls>>
       ELSE /\ local' = [local EXCEPT ![i] = Locals(Undef, Undef, resp.data.dbHost, resp.data.name)]
            /\ calls' = Count(calls, i, IF Truthy(args[i].credentialId) THEN "fetchCred" ELSE "create")
            /\ pc' = [pc EXCEPT ![i] = "v1-credential"]
            /\ UNCHANGED result
    /\ UNCHANGED <<sseVars, logged, started, callNo, tool, args, client, pending, conns>>

\* executeSQL (credentialId variant): the get- or create-credential request answers.
V1CredentialResponse(i, resp) ==
    /\ pc[i] = "v1-credential"
    /\ Settle(i, "credential", resp)
    /\ IF resp.kind = "reject"
       THEN /\ Done(i, CatchResult(resp.error, "Unknown error occurred while executing SQL query"))
            /\ UNCHANGED <<client, calls, conns>>
       ELSE IF ~resp.ok
       THEN /\ Done(i, ToolResult((IF Truthy(args[i].credentialId)
                                   THEN <<"Failed to get credential: ">>
                                   ELSE <<"Failed to create credential: ">>) \o resp.data.message,
                                  TRUE))
            /\ UNCHANGED <<client, calls, conns>>
       ELSE IF ~Truthy(resp.data.password)
       THEN /\ Done(i, ToolResult(<<"No password available for the credential. Please create a new credential.">>,
                                  TRUE))
            /\ UNCHANGED <<client, calls, conns>>
       ELSE /\ NewClient(calls, i, ClientConfig(resp.data.username, resp.data.password,
                                                local[i].dbHost, 5432, local[i].dbName))
            /\ UNCHANGED result
    /\ logged' = [logged EXCEPT ![i] =
                     IF resp.kind = "response" /\ resp.ok /\ Truthy(resp.data.password)
                     THEN @ \cup {LogEntry("host", local[i].dbHost),
                                  LogEntry("database", local[i].dbName)}
                     ELSE @]
    /\ UNCHANGED <<sseVars, started, callNo, tool, args, local, pending>>

\* (mutant) client.end() at the end of the try block instead of in finally:
\* a failed connect or query returns without it.
CallEndOnSuccessOnly(i) ==
    /\ conns' = IF pending'[i].isError THEN conns
                ELSE [conns EXCEPT ![client[i].id].ends = @ + 1,
                                   ![client[i].id].users = @ \cup {Caller(i)}]
    /\ calls' = IF pending'[i].isError THEN calls ELSE Count(calls, i, "end")
    /\ pc' = [pc EXCEPT ![i] = "end"]

\* The finally block: client.end() is called and awaited.
CallEnd(i) ==
    /\ conns' = [conns EXCEPT ![client[i].id].ends = @ + 1,
                               ![client[i].id].users = @ \cup {Caller(i)}]
    /\ calls' = Count(calls, i, "end")
    /\ pc' = [pc EXCEPT ![i] = "end"]

\* (mutant) one connection slot for the whole module: a handler goes on after
\* its connect only when no other invocation holds a connection.
ConnectResponseOneAtATime(i, o) ==
    /\ pc[i] = "connect"
    /\ \A j \in Invocations \ {i} : pc[j] \notin {"query", "end"}
    /\ Settle(i, "connect", o)
    /\ IF o.ok
       THEN /\ conns' = [conns EXCEPT ![client[i].id].connected = TRUE,
                                      ![client[i].id].users = @ \cup {Caller(i)}]
            /\ calls' = Count(calls, i, "query")
            /\ pc' = [pc EXCEPT ![i] = "query"]
            /\ UNCHANGED pending
       ELSE /\ pending' = [pending EXCEPT ![i] =
                             ToolResult(QueryErrorText(InnerCatchPrefix(tool[i]), o.error), TRUE)]
            /\ CallEnd(i)
    /\ UNCHANGED <<sseVars, logged, started, callNo, tool, args, local, client, result>>

\* `await client.connect()` settles; on success the query is submitted.
ConnectResponse(i, o) ==
    /\ pc[i] = "connect"
    /\ Settle(i, "connect", o)
    /\ IF o.ok
       THEN /\ conns' = [conns EXCEPT ![client[i].id].connected = TRUE,
                                      ![client[i].id].users = @ \cup {Caller(i)}]
            /\ calls' = Count(calls, i, "query")
            /\ pc' = [pc EXCEPT ![i] = "query"]
            /\ UNCHANGED pending
       ELSE /\ pending' = [pending EXCEPT ![i] =
                             ToolResult(QueryErrorText(InnerCatchPrefix(tool[i]), o.error), TRUE)]
            /\ CallEnd(i)
    /\ UNCHANGED <<sseVars, logged, started, callNo, tool, args, local, client, result>>

\* (mutant) a rejected query is submitted a second time.
QueryResponseRetry(i, o) ==
    /\ pc[i] = "query"
    /\ Settle(i, "query", o)
    /\ IF ~o.ok /\ calls[i].query < 2
       THEN /\ calls' = Count(calls, i, "query")
            /\ UNCHANGED <<pc, pending, conns>>
       ELSE /\ pending' = [pending EXCEPT ![i] =
                             IF ~o.ok
                             THEN ToolResult(QueryErrorText(InnerCatchPrefix(tool[i]), o.error), TRUE)
                             ELSE QuerySuccess(tool[i], args[i], o.value)]
            /\ CallEnd(i)
    /\ UNCHANGED <<sseVars, logged, started, callNo, tool, args, local, client, result>>

\* `await client.query(args.query)` settles; the result is rendered.
QueryResponse(i, o) ==
    /\ pc[i] = "query"
    /\ Settle(i, "query", o)
    /\ pending' = [pending EXCEPT ![i] =
                     IF ~o.ok
                     THEN ToolResult(QueryErrorText(InnerCatchPrefix(tool[i]), o.error), TRUE)
                     ELSE QuerySuccess(tool[i], args[i], o.value)]
    /\ CallEnd(i)
    /\ UNCHANGED <<sseVars, logged, started, callNo, tool, args, local, client, result>>

\* (mutant) no outer try/catch: a rejected client.end() leaves the handler as
\* an exception and the call has no result.
EndResponseUncaught(i, o) ==
    /\ pc[i] = "end"
    /\ Settle(i, "end", o)
    /\ Done(i, IF o.ok THEN pending[i] ELSE NoResult)
    /\ UNCHANGED <<sseVars, logged, started, callNo, tool, args, local, client, pending, calls, conns>>

\* `await client.end()` settles: the pending return value goes out, unless end
\* rejected, which the outer catch turns into the result.
EndResponse(i, o) ==
    /\ pc[i] = "end"
    /\ Settle(i, "end", o)
    /\ Done(i, IF o.ok THEN pending[i]
               ELSE CatchResult(o.error, OuterCatchFallback(tool[i])))
    /\ UNCHANGED <<sseVars, logged, started, callNo, tool, args, local, client, pending, calls, conns>>

ConnectOutcomes == {Resolved(NoValue)} \cup { RejectedWith(e) : e \in ConnectErrors }

\* A query string with several statements resolves to an array of results,
\* which has no fields property.
MultiStatementResult == QueryResult(Undef, <<>>, NullCount)

QueryOutcomes ==
    { Resolved(r) : r \in QueryResults \cup {MultiStatementResult} }
        \cup { RejectedWith(e) : e \in QueryErrors }

EndOutcomes == {Resolved(NoValue)} \cup { RejectedWith(e) : e \in EndErrors }

\* One tool call at a time (each call runs to completion before the next
\* arrives), with every input and every answer of the environment.
Next ==
    \/ \E t \in Tools : \E a \in ToolArgs(t) : Call(1, t, a)
    \/ \E name \in ToolNames : \E a \in RawArgs : Reject(1, name, a)
    \/ \E resp \in DeleteResponses : RequestResponse(1, resp)
    \/ \E resp \in CredentialResponses : CredentialResponse(1, resp)
    \/ \E resp \in DatabaseResponses : DatabaseResponse(1, resp)
    \/ \E resp \in DatabaseResponses : V1DatabaseResponse(1, resp)
    \/ \E resp \in CredentialResponses : V1CredentialResponse(1, resp)
    \/ \E o \in ConnectOutcomes : ConnectResponse(1, o)
    \/ \E o \in QueryOutcomes : QueryResponse(1, o)
    \/ \E o \in EndOutcomes : EndResponse(1, o)

Spec == Init /\ [][Next]_vars

\* Pipelined execute-sql calls: up to NumInvocations handlers in flight, their
\* awaits interleaved in every order, over a part of the inputs and answers.
SomeArgs ==
    { a \in ToolArgs("execute-sql") :
        a.connectionString \in {Undef, Override(<<"u1">>, <<"pw1">>, <<"db.example.dev">>,
                                                <<"6", "5", "4", "3">>, <<"test-db">>)} }

SomeResponses(all) ==
    { r \in all : /\ r.data.message \in {Undef, <<"Unauthorized">>}
                  /\ r.data.region \in {Undef, <<"AWS", "_", "US", "_", "WEST", "_", "2">>}
                  /\ r.data.password \in {Undef, <<"pw">>}
                  /\ r.kind = "response" /\ r.ok /\ r.data.region # Undef => r.data.dbHost # Undef }

SomeQueryOutcomes ==
    { o \in QueryOutcomes :
        /\ o.value.fields = <<>>
        /\ o.value.rows = <<>>
        /\ o.value.rowCount = NullCount
        /\ o.error.detail = Undef
        /\ o.error.hint = Undef }

NextConcurrent ==
    \/ \E i \in Invocations, a \in SomeArgs : Call(i, "execute-sql", a)
    \/ \E i \in Invocations, resp \in SomeResponses(CredentialResponses) : CredentialResponse(i, resp)
    \/ \E i \in Invocations, resp \in SomeResponses(DatabaseResponses) : DatabaseResponse(i, resp)
    \/ \E i \in Invocations, o \in ConnectOutcomes : ConnectResponse(i, o)
    \/ \E i \in Invocations, o \in SomeQueryOutcomes : QueryResponse(i, o)
    \/ \E i \in Invocations, o \in EndOutcomes : EndResponse(i, o)

SpecConcurrent == Init /\ [][NextConcurrent]_vars

\* Pipelined calls that go through every await of the handler, each of which
\* either resolves with a usable answer or rejects.
SettledResponses(all) ==
    { r \in SomeResponses(all) :
        \/ r.kind = "reject"
        \/ r.ok /\ r.data.message = Undef /\ (r.data.password # Undef \/ r.data.region # Undef) }

SettledCredentialResponses == SettledResponses(CredentialResponses)

SettledDatabaseResponses == SettledResponses(DatabaseResponses)

\* The promise invocation i awaits rejects.
AwaitRejects(i) ==
    \/ \E resp \in SettledCredentialResponses :
          resp.kind = "reject" /\ CredentialResponse(i, resp)
    \/ \E resp \in SettledDatabaseResponses :
          resp.kind = "reject" /\ DatabaseResponse(i, resp)
    \/ \E o \in ConnectOutcomes : ~o.ok /\ ConnectResponse(i, o)
    \/ \E o \in SomeQueryOutcomes : ~o.ok /\ QueryResponse(i, o)
    \/ \E o \in EndOutcomes : ~o.ok /\ EndResponse(i, o)

\* The promise invocation i awaits resolves.
AwaitResolves(i) ==
    \/ \E resp \in SettledCredentialResponses :
          resp.kind = "response" /\ CredentialResponse(i, resp)
    \/ \E resp \in SettledDatabaseResponses :
          resp.kind = "response" /\ DatabaseResponse(i, resp)
    \/ \E o \in ConnectOutcomes : o.ok /\ ConnectResponse(i, o)
    \/ \E o \in SomeQueryOutcomes : o.ok /\ QueryResponse(i, o)
    \/ \E o \in EndOutcomes : o.ok /\ EndResponse(i, o)

\* The await invocation i is suspended at settles, one way or the other.
AwaitSettles(i) == AwaitRejects(i) \/ AwaitResolves(i)

\* Invocation slot i is free and no slot before it is: which free slot a new
\* call takes makes no difference to any handler.
FirstFree(i) ==
    /\ pc[i] \in {"idle", "done", "rejected"}
    /\ \A j \in Invocations : j < i => pc[j] \notin {"idle", "done", "rejected"}

NextPipelined ==
    \/ \E i \in Invocations, a \in SomeArgs :
          FirstFree(i) /\ a.connectionString = Undef /\ Call(i, "execute-sql", a)
    \/ \E i \in Invocations : AwaitSettles(i)

\* The event loop runs a handler's continuation once the promise it awaits
\* has settled, and every promise settles in the end.
SpecPipelined ==
    Init /\ [][NextPipelined]_vars /\ \A i \in Invocations : WF_vars(AwaitSettles(i))

TypeOK ==
    /\ pc \in [Invocations -> {"idle", "request", "credential", "database", "v1-database",
                               "v1-credential", "connect", "query", "end", "done",
                               "rejected"}]
    /\ started \in 0..MaxCalls

\* ------------------------------------------------------------ SSE binding
\* SSEHandler (handlers/sse.ts): GET /sse opens an event stream and stores its
\* response and a new transport in the handler's two fields; POST /messages
\* hands a message to the stored transport.  Stream k is the k-th GET /sse
\* request; its transport's sessionId is k (a fresh UUID in the code).
MaxStreams == 2

\* sessionId query parameters a POST may carry: none (0), the token of a
\* stream, or one no transport ever had.
Tokens == 0..(MaxStreams + 1)

\* A GET /sse request: whether its peer is gone (the request's 'close' event
\* fired), whether its response was ended, whether its transport was closed,
\* how server.connect(transport) settled, whether its heartbeat interval is
\* set, which stream's interval wrote the latest heartbeat if that went to its
\* response (0: it did not), and whether a write to its response threw.
Stream ==
    [peerGone |-> FALSE, ended |-> FALSE, closed |-> FALSE, connect |-> "pending",
     timer |-> TRUE, beat |-> 0, failed |-> FALSE]

\* The response of stream k can still carry events to its peer.
Open(k) == ~streams[k].peerGone /\ ~streams[k].ended

OpenStreams == {k \in 1..Len(streams) : Open(k)}

\* SSEServerTransport.close() on transport t: its response is ended and its
\* onclose handler (lines 54-57) runs.
CloseTransport(table, t) == [table EXCEPT ![t].closed = TRUE, ![t].ended = TRUE]

\* The process has not finished shutting down: stop() has not settled.
Running == stop.at \in {"idle", "closing"}

\* GET /sse (lines 33-101): headers set, both fields overwritten, listeners
\* and the heartbeat interval installed, server.connect started.
GetSse ==
    /\ stop = NotStopped
    /\ Len(streams) < MaxStreams
    /\ streams' = Append(streams, Stream)
    /\ sseResponse' = Len(streams) + 1
    /\ transport' = Len(streams) + 1
    /\ UNCHANGED <<post, stop, toolVars>>

\* The promise of server.connect(transport) of stream k settles (lines 90-100):
\* on rejection the interval is cleared and the response ended.
ConnectSettled(k, ok) ==
    /\ Running
    /\ k \in 1..Len(streams)
    /\ streams[k].connect = "pending"
    /\ streams' = IF ok THEN [streams EXCEPT ![k].connect = "ok"]
                  ELSE [streams EXCEPT ![k].connect = "failed", ![k].timer = FALSE,
                                       ![k].ended = TRUE]
    /\ UNCHANGED <<transport, sseResponse, post, stop, toolVars>>

\* The 'close' event of stream k's request (lines 64-71): whatever transport
\* the handler holds now is closed and both fields are cleared.
ReqClose(k) ==
    /\ Running
    /\ k \in 1..Len(streams)
    /\ ~streams[k].peerGone
    /\ LET gone == [streams EXCEPT ![k].peerGone = TRUE]
       IN  IF transport # 0
           THEN /\ streams' = CloseTransport(gone, transport)
                /\ transport' = 0
                /\ sseResponse' = 0
           ELSE /\ streams' = gone
                /\ UNCHANGED <<transport, sseResponse>>
    /\ UNCHANGED <<post, stop, toolVars>>

\* The heartbeat interval of stream k fires (lines 74-87): it clears itself
\* when the handler's fields are empty or the stored response is ended,
\* otherwise it writes to the stored response (wrote: the write did not throw).
Heartbeat(k, wrote) ==
    /\ Running
    /\ k \in 1..Len(streams)
    /\ streams[k].timer
    /\ LET quiet == [n \in 1..Len(streams) |-> [streams[n] EXCEPT !.beat = 0]]
       IN  IF transport = 0 \/ sseResponse = 0 \/ streams[sseResponse].ended
           THEN streams' = [quiet EXCEPT ![k].timer = FALSE]
           ELSE IF wrote
           THEN streams' = [quiet EXCEPT ![sseResponse].beat = k]
           ELSE streams' = [quiet EXCEPT ![k].timer = FALSE, ![sseResponse].failed = TRUE]
    /\ UNCHANGED <<transport, sseResponse, post, stop, toolVars>>

\* POST /messages, lines 106-125 and 177: the status the handler answers with.
PostStatus(token) ==
    IF transport = 0 \/ sseResponse = 0 THEN 400
    ELSE IF token # 0 /\ token # transport THEN 400
    ELSE 202

\* The handler without the acknowledgment of line 177.
PostMessagesAckLate(token) ==
    /\ stop = NotStopped
    /\ post.at \notin {"handling", "dispatched"}
    /\ post' = IF PostStatus(token) = 400
               THEN PostRecord(token, 400, 0, OpenStreams, 0)
               ELSE [PostRecord(token, 202, transport, OpenStreams, 0)
                        EXCEPT !.responses = <<>>]
    /\ UNCHANGED <<transport, sseResponse, streams, stop, toolVars>>

\* POST /messages up to its await (lines 103-182): a 400 from either guard, or
\* the 202 and then the message handed to the stored transport. The model
\* follows one POST at a time.
PostMessages(token) ==
    /\ stop = NotStopped
    /\ post.at \notin {"handling", "dispatched"}
    /\ post' = IF PostStatus(token) = 400
               THEN PostRecord(token, 400, 0, OpenStreams, 0)
               ELSE PostRecord(token, 202, transport, OpenStreams, 0)
    /\ UNCHANGED <<transport, sseResponse, streams, stop, toolVars>>

\* handlePostMessage settles (lines 182-216): when it threw, an error frame is
\* written to the response stored by then unless that one is ended, and a 500
\* to the request unless its headers are sent.
PostSettled(threw) ==
    /\ Running
    /\ post.at = "handling"
    /\ post' = IF threw
               THEN [post EXCEPT !.at = "failed",
                                 !.errorTo = IF sseResponse # 0 /\ ~streams[sseResponse].ended
                                             THEN sseResponse ELSE 0,
                                 !.responses = IF post.responses = <<>>
                                               THEN <<500>> ELSE post.responses]
               ELSE [post EXCEPT !.at = "dispatched"]
    /\ UNCHANGED <<transport, sseResponse, streams, stop, toolVars>>

\* The result is written for the POST (mockRes.write, lines 130-148): an
\* `event: message` frame goes to the response stored by then, unless none is
\* stored or that one is ended.
Deliver ==
    /\ Running
    /\ post.at = "dispatched"
    /\ post' = [post EXCEPT !.at = "done",
                            !.delivered = IF sseResponse # 0 /\ ~streams[sseResponse].ended
                                          THEN sseResponse ELSE 0]
    /\ UNCHANGED <<transport, sseResponse, streams, stop, toolVars>>

\* SSEHandler.stop() is called (lines 262-265): with a transport stored it
\* calls server.close() and awaits it, with none it returns.
StopCalled ==
    /\ stop = NotStopped
    /\ stop' = IF transport # 0 THEN StopRecord("closing", transport)
               ELSE StopRecord("skipped", 0)
    /\ UNCHANGED <<transport, sseResponse, streams, post, toolVars>>

\* server.close() settles (lines 265-268): resolved, the server has closed the
\* transport it was connected to and both fields are cleared; rejected,
\* stop() rejects and leaves them.
CloseSettled(ok) ==
    /\ stop.at = "closing"
    /\ IF ok
       THEN /\ streams' = CloseTransport(streams, stop.found)
            /\ transport' = 0
            /\ sseResponse' = 0
            /\ stop' = [stop EXCEPT !.at = "closed"]
       ELSE /\ stop' = [stop EXCEPT !.at = "rejected"]
            /\ UNCHANGED <<transport, sseResponse, streams>>
    /\ UNCHANGED <<post, toolVars>>

NextSSE ==
    \/ GetSse
    \/ \E k \in 1..MaxStreams, ok \in BOOLEAN : ConnectSettled(k, ok)
    \/ \E k \in 1..MaxStreams : ReqClose(k)
    \/ \E k \in 1..MaxStreams, wrote \in BOOLEAN : Heartbeat(k, wrote)
    \/ \E token \in Tokens : PostMessages(token)
    \/ \E threw \in BOOLEAN : PostSettled(threw)
    \/ Deliver

SpecSSE == Init /\ [][NextSSE]_vars

\* The POST handler alone with the streams it depends on.  The heartbeat
\* intervals are left out: they read the two fields and write only the
\* streams' timer, beat and failed, none of which the POST handler reads.
NextPost ==
    \/ GetSse
    \/ \E k \in 1..MaxStreams, ok \in BOOLEAN : ConnectSettled(k, ok)
    \/ \E k \in 1..MaxStreams : ReqClose(k)
    \/ \E token \in Tokens : PostMessages(token)
    \/ \E threw \in BOOLEAN : PostSettled(threw)
    \/ Deliver

SpecPost == Init /\ [][NextPost]_vars

\* The binding with its shutdown: streams open, connect and disconnect, and
\* stop() is called once.
NextShutdown ==
    \/ GetSse
    \/ \E k \in 1..MaxStreams, ok \in BOOLEAN : ConnectSettled(k, ok)
    \/ \E k \in 1..MaxStreams : ReqClose(k)
    \/ StopCalled
    \/ \E ok \in BOOLEAN : CloseSettled(ok)

SpecShutdown == Init /\ [][NextShutdown]_vars

\* ------------------------------------------------------------------ claims
SqlTools == {"execute-sql", "execute-sql-v1"}

InFlight(i) == pc[i] \notin {"idle", "done", "rejected"}

IsOpen(c) == c.connected /\ c.ends = 0

\* C1: every execute-sql invocation whose connect succeeded has called
\* client.end() on its connection exactly once by the time it returns, whether
\* the query succeeded, failed or threw afterwards; no connection is ended
\* twice, and when no invocation is running no connection is open.
C1_ReleasedExactlyOnce ==
    /\ \A k \in 1..Len(conns) : conns[k].ends <= 1
    /\ \A i \in Invocations :
         (pc[i] = "done" /\ tool[i] \in SqlTools /\ env[i].connect.kind = "resolved")
            => (calls[i].end = 1 /\ conns[client[i].id].ends = 1)
    /\ (\A i \in Invocations : ~InFlight(i))
            => \A k \in 1..Len(conns) : ~IsOpen(conns[k])

\* Two invocations in a row, the second returned after its query failed, both
\* connections released.
C1_Witness ==
    /\ started = 2 /\ Len(conns) = 2
    /\ pc[1] = "done" /\ tool[1] = "execute-sql"
    /\ env[1].connect.kind = "resolved" /\ env[1].query.kind = "rejected"
    /\ conns[1].connected /\ conns[1].ends = 1
    /\ conns[2].connected /\ conns[2].ends = 1

\* C2: under every interleaving of concurrent invocations each invocation
\* connects at most once, on a client it created itself and that no other call
\* touches; open connections never outnumber the invocations in flight; an
\* invocation that has returned has ended its connection.
C2_ExclusiveConnection ==
    /\ \A k \in 1..Len(conns) : conns[k].users \subseteq {conns[k].owner}
    /\ \A i \in Invocations :
         /\ calls[i].connect <= 1
         /\ calls[i].connect = 1 <=> client[i].id # 0
         /\ client[i].id # 0 => conns[client[i].id].owner = callNo[i]
         /\ (pc[i] = "done" /\ client[i].id # 0) => conns[client[i].id].ends = 1
    /\ \A i, j \in Invocations :
         (i # j /\ client[i].id # 0) => client[i].id # client[j].id
    /\ Cardinality({k \in 1..Len(conns) : IsOpen(conns[k])})
          <= Cardinality({i \in Invocations : InFlight(i)})

\* Two invocations each holding its own open connection at the same time.
C2_Witness ==
    /\ pc[1] = "query" /\ pc[2] = "query"
    /\ client[1].id # client[2].id
    /\ IsOpen(conns[client[1].id]) /\ IsOpen(conns[client[2].id])

\* What the resolver (getConnectionString) returned to invocation i.
ResolverResult(i) ==
    LET r == GcsAfterCredential(env[i].credential)
    IN  IF r.done THEN r.result
        ELSE GcsAfterDatabase(local[i].user, local[i].password, args[i].databaseName,
                              env[i].database)

NotOk(resp) == resp.kind = "response" /\ ~resp.ok

NoPassword(resp) == resp.kind = "response" /\ resp.ok /\ ~Truthy(resp.data.password)

ResolverFailed(i) ==
    \/ NotOk(env[i].credential)
    \/ NoPassword(env[i].credential)
    \/ NotOk(env[i].database)

\* C3: an execute-sql invocation whose credential resolution failed
\* (create-credential or fetch-database answered non-2xx, or the password is
\* missing) has returned the resolver's result, with isError true, and has
\* created no client, connected nothing, submitted no query and ended nothing.
C3_ResolverFailureSkipsConnection ==
    \A i \in Invocations :
        (tool[i] = "execute-sql" /\ ResolverFailed(i))
            => /\ pc[i] = "done"
               /\ result[i].isError
               /\ result[i] = ResolverResult(i)
               /\ client[i] = NoClient
               /\ calls[i].connect = 0 /\ calls[i].query = 0 /\ calls[i].end = 0

\* execute-sql returned after fetch-database answered non-2xx.
C3_Witness ==
    /\ pc[1] = "done" /\ tool[1] = "execute-sql"
    /\ env[1].credential.ok /\ NotOk(env[1].database)
    /\ result[1].isError /\ calls[1].connect = 0

\* C4 (as claimed; the code violates it): when opening the connection fails,
\* execute-sql returns isError true with a text that contains the transport
\* error message, and has submitted no query.
C4_ConnectFailureReported ==
    \A i \in Invocations :
        (pc[i] = "done" /\ tool[i] \in SqlTools /\ env[i].connect.kind = "rejected")
            => /\ result[i].isError
               /\ Contains(result[i].text, env[i].connect.error.message)
               /\ calls[i].query = 0

\* C5: within one invocation each external operation (create-credential,
\* fetch-database, fetch-credential, the single request of a one-request tool,
\* connect, query, end) is issued at most once, and nothing is issued again
\* after it failed: a failed upstream request is the invocation's last one and
\* a failed connect is followed by no query.
C5_NoRetry ==
    \A i \in Invocations :
        /\ \A kind \in DOMAIN NoCalls : calls[i][kind] <= 1
        /\ calls[i].create + calls[i].fetchCred <= 1
        /\ (env[i].connect.kind = "rejected") => calls[i].query = 0
        /\ \A await \in {"request", "credential", "database"} :
              (env[i][await].kind = "reject" \/ NotOk(env[i][await]))
                 => (pc[i] = "done" /\ calls[i].connect = 0
                     /\ calls[i].create + calls[i].fetchCred + calls[i].fetchDb + calls[i].request
                          = Cardinality({w \in {"request", "credential", "database"} :
                                            env[i][w].kind # "none"}))

\* execute-sql returned after its one query failed: one credential minted, one
\* fetch-database, one connect, one query.
C5_Witness ==
    /\ pc[1] = "done" /\ tool[1] = "execute-sql"
    /\ env[1].query.kind = "rejected"
    /\ calls[1].create = 1 /\ calls[1].fetchDb = 1
    /\ calls[1].connect = 1 /\ calls[1].query = 1 /\ calls[1].end = 1

\* C6: in every tool, a non-2xx answer of the control plane ends the
\* invocation with isError true and a text that contains the payload's
\* message; no further upstream request was sent and no client was created.
C6_UpstreamErrorSurfaced ==
    \A i \in Invocations : \A await \in {"request", "credential", "database"} :
        NotOk(env[i][await])
            => /\ pc[i] = "done"
               /\ result[i].isError
               /\ Contains(result[i].text, env[i][await].data.message)
               /\ client[i] = NoClient /\ calls[i].connect = 0
               /\ \A w \in {"request", "credential", "database"} \ {await} :
                     env[i][w].kind \in {"none", "response"}
                        /\ (env[i][w].kind = "response" => env[i][w].ok)
               /\ calls[i].create + calls[i].fetchCred + calls[i].fetchDb + calls[i].request
                    = Cardinality({w \in {"request", "credential", "database"} :
                                      env[i][w].kind # "none"})

\* execute-sql returned after create-credential answered non-2xx; its text
\* carries the message.
C6_Witness ==
    /\ pc[1] = "done" /\ tool[1] = "execute-sql"
    /\ NotOk(env[1].credential)
    /\ Contains(result[1].text, <<"Database not found">>)
    /\ calls[1].fetchDb = 0

\* C7: when the credential obtained carries no password (created, or fetched
\* by credentialId) the call has returned isError true without creating a
\* client or connecting; the step in which this happens changes no connection
\* and no other invocation.
C7_NoPasswordState ==
    \A i \in Invocations :
        NoPassword(env[i].credential)
            => /\ pc[i] = "done"
               /\ result[i].isError
               /\ client[i] = NoClient /\ calls[i].connect = 0

C7_NoPasswordStep ==
    \A i \in Invocations :
        (NoPassword(env'[i].credential) /\ ~NoPassword(env[i].credential))
            => /\ conns' = conns
               /\ \A j \in Invocations \ {i} :
                     /\ pc'[j] = pc[j] /\ result'[j] = result[j]
                     /\ client'[j] = client[j] /\ calls'[j] = calls[j]

C7_NoPasswordNoConnection == []C7_NoPasswordState /\ [][C7_NoPasswordStep]_vars

\* The second call, by credentialId, returned for want of a password; the
\* connection of the first call is as it was left.
C7_Witness ==
    /\ started = 2 /\ pc[1] = "done" /\ tool[1] = "execute-sql-v1"
    /\ Truthy(args[1].credentialId)
    /\ NoPassword(env[1].credential)
    /\ result[1].isError /\ calls[1].connect = 0
    /\ Len(conns) = 1 /\ conns[1].connected /\ conns[1].ends = 1

\* C8 (as claimed; the code violates it): execute-sql called with an override
\* sends nothing to the control plane and creates its client with exactly the
\* user, password, host, port and database the override was written from.
C8_OverrideUsedAsGiven ==
    \A i \in Invocations : \A d \in OverrideDescriptors :
        (tool[i] = "execute-sql" /\ args[i].connectionString = OverrideOf(d))
            => /\ calls[i].create = 0 /\ calls[i].fetchDb = 0 /\ calls[i].fetchCred = 0
               /\ client[i].config =
                     ClientConfig(d.user, d.password, d.host, ParseInt(d.port), d.database)

\* C9 (as claimed; the code violates it): with a malformed override
\* execute-sql never attempts a connection and returns isError true.
C9_MalformedOverrideRejected ==
    \A i \in Invocations :
        (tool[i] = "execute-sql" /\ args[i].connectionString \in MalformedOverrides)
            => /\ calls[i].connect = 0
               /\ pc[i] = "done" => result[i].isError

\* C10 (as claimed; the code violates it): when the fetched database record
\* has no dbHost, execute-sql attempts no connection and returns isError true.
C10_MissingDbHostIsError ==
    \A i \in Invocations :
        (/\ tool[i] \in SqlTools
         /\ env[i].database.kind = "response" /\ env[i].database.ok
         /\ env[i].database.data.dbHost = Undef)
            => /\ calls[i].connect = 0
               /\ pc[i] = "done" => result[i].isError

\* The create-credential and fetch-database requests of invocation i both
\* answered 2xx, with a password.
Resolved2xx(i) ==
    /\ env[i].credential.kind = "response" /\ env[i].credential.ok
    /\ Truthy(env[i].credential.data.password)
    /\ env[i].database.kind = "response" /\ env[i].database.ok

\* The host the documentation gives for each enumerated region.
ExpectedHost(region) ==
    CASE region = <<"AWS", "_", "US", "_", "WEST", "_", "2">>
            -> <<"us", "-", "west", "-", "2", ".db.thenile.dev">>
      [] region = <<"AWS", "_", "EU", "_", "CENTRAL", "_", "1">>
            -> <<"eu", "-", "central", "-", "1", ".db.thenile.dev">>

\* C11 (as claimed; the code does otherwise): after a successful
\* create-credential and a successful fetch-database that carries a dbHost,
\* the descriptor execute-sql connects with has that dbHost as host and the
\* created credential's id as user.
C11_HostIsDbHost ==
    \A i \in Invocations :
        (/\ tool[i] = "execute-sql" /\ Resolved2xx(i) /\ client[i].id # 0
         /\ env[i].database.data.dbHost # Undef)
            => /\ client[i].config.host = env[i].database.data.dbHost
               /\ client[i].config.user = env[i].credential.data.id

\* C11 (amended): after a successful create-credential and a successful
\* fetch-database, the descriptor execute-sql connects with has as host the
\* host derived from the fetched record's region (AWS_ removed, underscores
\* to hyphens, lower case, then .db.thenile.dev), whatever the record's
\* dbHost, and as user the created credential's id.
C11_HostFromRegion ==
    \A i \in Invocations :
        (tool[i] = "execute-sql" /\ Resolved2xx(i))
            => /\ client[i].id # 0
               /\ client[i].config.host = ExpectedHost(env[i].database.data.region)
               /\ client[i].config.user = env[i].credential.data.id

\* execute-sql connected to the region's host although the record names
\* another dbHost.
C11_Witness ==
    /\ tool[1] = "execute-sql" /\ Resolved2xx(1) /\ pc[1] = "query"
    /\ env[1].database.data.region = <<"AWS", "_", "US", "_", "WEST", "_", "2">>
    /\ env[1].database.data.dbHost = <<"us", "-", "west", "-", "2", ".db.example.dev">>
    /\ client[1].config.host = <<"us", "-", "west", "-", "2", ".db.thenile.dev">>
    /\ client[1].config.user = <<"cred-123">>

\* C12: for every enumerated region and every database name, a
\* get-connection-string whose two requests succeeded has returned isError
\* false and a text that contains
\* postgres://<credential id>:<password>@<host>:5432/<databaseName>, where
\* <host> is the documented host of the region.
C12_ConnectionStringFormat ==
    \A i \in Invocations :
        (tool[i] = "get-connection-string" /\ Resolved2xx(i))
            => /\ pc[i] = "done"
               /\ ~result[i].isError
               /\ env[i].database.data.region \in Regions
               /\ Contains(result[i].text,
                           <<"postgres", ":", "/", "/">> \o env[i].credential.data.id
                               \o <<":">> \o env[i].credential.data.password \o <<"@">>
                               \o ExpectedHost(env[i].database.data.region)
                               \o <<":", "5", "4", "3", "2", "/">> \o args[i].databaseName)

\* get-connection-string returned the string for a database in AWS_EU_CENTRAL_1.
C12_Witness ==
    /\ tool[1] = "get-connection-string" /\ pc[1] = "done" /\ Resolved2xx(1)
    /\ env[1].database.data.region = <<"AWS", "_", "EU", "_", "CENTRAL", "_", "1">>
    /\ args[1].databaseName = <<"my", "-", "app">>
    /\ ~result[1].isError

\* C13 (as claimed; the code violates it): the descriptor execute-sql connects
\* with after building the connection string as getConnectionString does and
\* re-parsing it is the descriptor the string was built from: the credential's
\* id and password, the region's host, port 5432 and the database name.
C13_RoundTrip ==
    \A i \in Invocations :
        (tool[i] = "execute-sql" /\ Resolved2xx(i) /\ client[i].id # 0)
            => client[i].config =
                  ClientConfig(env[i].credential.data.id, env[i].credential.data.password,
                               ExpectedHost(env[i].database.data.region), 5432,
                               args[i].databaseName)

\* Reading a rendered table back: its lines, whether it starts with a header
\* and a separator line, how many columns the header has and how many lines
\* are data rows.
TextLines(text) == Split(text, <<"\n">>)

CountSymbol(s, c) == Cardinality({k \in 1..Len(s) : s[k] = c})

HasHeader(text) ==
    LET lines == TextLines(text)
    IN  Len(lines) >= 2 /\ IsPrefix(<<"|", "---">>, lines[2])

HeaderColumns(text) ==
    IF HasHeader(text) THEN CountSymbol(TextLines(text)[1], "|") - 1 ELSE 0

SeparatorColumns(text) ==
    IF HasHeader(text) THEN CountSymbol(TextLines(text)[2], "---") ELSE 0

DataRows(text) ==
    LET lines == TextLines(text)
    IN  Cardinality({k \in 1..Len(lines) : IsPrefix(<<"|">>, lines[k])})
            - (IF HasHeader(text) THEN 2 ELSE 0)

SummaryLine(text) ==
    LET lines == TextLines(text)
    IN  lines[Len(lines)]

\* The query of invocation i resolved to a result with fields and rows;
\* pending[i] is what the handler rendered from it.
QueryGaveTable(i) ==
    /\ tool[i] = "execute-sql"
    /\ env[i].query.kind = "resolved" /\ env[i].query.value.fields # Undef

\* C14 (as claimed; the code does otherwise): for every query result with f
\* fields and r rows the text execute-sql renders has exactly f header
\* columns, exactly r data rows and the summary line "r rows returned.".
C14_SummaryStatesRows ==
    \A i \in Invocations :
        QueryGaveTable(i)
            => LET f == Len(env[i].query.value.fields)
                   r == Len(env[i].query.value.rows)
               IN  /\ HeaderColumns(pending[i].text) = f
                   /\ SeparatorColumns(pending[i].text) = f
                   /\ DataRows(pending[i].text) = r
                   /\ SummaryLine(pending[i].text) = <<ToString(r), " rows returned.">>

\* C14 (amended): for every query result with f fields and r rows the text
\* execute-sql renders has exactly f header columns, exactly r data rows and
\* a summary line stating the rowCount the engine reported (0 when it
\* reported none), which need not be r.
C14_TableShape ==
    \A i \in Invocations :
        QueryGaveTable(i)
            => LET f == Len(env[i].query.value.fields)
                   r == Len(env[i].query.value.rows)
                   c == env[i].query.value.rowCount
               IN  /\ ~pending[i].isError
                   /\ HeaderColumns(pending[i].text) = f
                   /\ SeparatorColumns(pending[i].text) = f
                   /\ DataRows(pending[i].text) = r
                   /\ SummaryLine(pending[i].text)
                         = <<ToString(IF c = NullCount THEN 0 ELSE c), " rows returned.">>

\* A statement that returned no row and affected one (rowCount 1): the text
\* has no data row and says "1 rows returned.".
C14_Witness ==
    /\ QueryGaveTable(1)
    /\ env[1].query.value.rows = <<>> /\ env[1].query.value.rowCount = 1
    /\ DataRows(pending[1].text) = 0
    /\ SummaryLine(pending[1].text) = <<"1", " rows returned.">>

\* The text has the engine's message on its first line, then a line with the
\* detail if there is one, then a line with the hint if there is one, and no
\* other line.
ErrorLinesInOrder(text, pgError) ==
    LET lines == TextLines(text)
        d == IF Truthy(pgError.detail) THEN 1 ELSE 0
        h == IF Truthy(pgError.hint) THEN 1 ELSE 0
    IN  /\ Len(lines) = 1 + d + h
        /\ \A k \in 1..Len(lines) : lines[k] # <<>>
        /\ Contains(lines[1], pgError.message)
        /\ d = 1 => Contains(lines[2], pgError.detail)
        /\ h = 1 => Contains(lines[1 + d + h], pgError.hint)

\* C15 (as claimed; the code violates it): when the query fails, execute-sql
\* returns isError true and a text with the engine's message, then the detail
\* if present, then the hint if present, each on its own line in that order,
\* and no line for an absent detail or hint.
C15_QueryErrorRendered ==
    \A i \in Invocations :
        (pc[i] = "done" /\ tool[i] = "execute-sql" /\ env[i].query.kind = "rejected")
            => /\ result[i].isError
               /\ ErrorLinesInOrder(result[i].text, env[i].query.error)

\* String.prototype.endsWith
EndsWith(s, p) == Len(p) <= Len(s) /\ SubSeq(s, Len(s) - Len(p) + 1, Len(s)) = p

\* C16 (as claimed; the code violates it): a query that succeeds with zero
\* rows, with or without fields, yields isError false, and a text that ends
\* with "0 rows returned." when the engine reports no count or a count of 0.
C16_EmptyResultIsNotAnError ==
    \A i \in Invocations :
        (/\ pc[i] = "done" /\ tool[i] = "execute-sql"
         /\ env[i].query.kind = "resolved" /\ env[i].query.value.fields # Undef
         /\ env[i].query.value.rows = <<>>)
            => /\ ~result[i].isError
               /\ env[i].query.value.rowCount \in {NullCount, 0}
                     => EndsWith(result[i].text, <<"0", " rows returned.">>)

\* The properties each registered schema requires (part of the registration,
\* written out tool by tool).
RequiredProperties(t) ==
    CASE t \in {"execute-sql", "execute-sql-v1"} -> {"databaseName", "query"}
      [] t = "delete-tenant" -> {"databaseName", "tenantId"}
      [] t \in {"get-connection-string", "delete-database"} -> {"databaseName"}

SatisfiesSchema(t, a) == \A f \in RequiredProperties(t) : a[f] # Undef

\* A handler has run for the call in slot i.
HandlerRan(i) == pc[i] \notin {"idle", "rejected"}

C17_RejectedState ==
    \A i \in Invocations :
        /\ HandlerRan(i)
              => (tool[i] \in Tools /\ SatisfiesSchema(tool[i], args[i]))
        /\ (callNo[i] # 0 /\ (tool[i] \notin Tools \/ ~SatisfiesSchema(tool[i], args[i])))
              => /\ pc[i] = "rejected"
                 /\ calls[i] = NoCalls /\ client[i] = NoClient
                 /\ env[i] = NoEnv /\ result[i] = NoResult

C17_RejectedStep ==
    \A i \in Invocations :
        (callNo'[i] # callNo[i] /\ pc'[i] = "rejected")
            => /\ conns' = conns
               /\ calls'[i] = NoCalls

\* C17: a call whose name is not registered or whose arguments violate the
\* registered schema never runs a handler: it sends no upstream request,
\* creates no client and touches no connection; every call for which a
\* handler runs names a registered tool and satisfies its schema.
C17_RejectedBeforeHandler == []C17_RejectedState /\ [][C17_RejectedStep]_vars

\* After a call that opened and closed a connection, execute-sql is called
\* without a query and is turned down: nothing was sent for it.
C17_Witness ==
    /\ started = 2 /\ pc[1] = "rejected" /\ tool[1] = "execute-sql"
    /\ args[1].query = Undef
    /\ calls[1] = NoCalls
    /\ Len(conns) = 1 /\ conns[1].ends = 1

\* Something the invocation awaited failed: a request rejected or answered
\* non-2xx, the credential had no password, or connect, query or end rejected.
SomethingFailed(i) ==
    \/ \E w \in {"request", "credential", "database"} :
          env[i][w].kind = "reject" \/ NotOk(env[i][w])
    \/ NoPassword(env[i].credential)
    \/ \E w \in {"connect", "query", "end"} : env[i][w].kind = "rejected"

\* C18: every handler invocation that has returned, on every path, has
\* returned a result with a text content item and a boolean isError, and
\* isError is true when something it awaited failed; a result with no text
\* would be an exception that left the handler.
C18_AlwaysAToolResult ==
    \A i \in Invocations :
        pc[i] = "done"
            => /\ result[i].text # Undef
               /\ result[i].isError \in BOOLEAN
               /\ SomethingFailed(i) => result[i].isError

\* delete-tenant returned a result although client.end() rejected after the
\* query had failed.
C18_Witness ==
    /\ pc[1] = "done" /\ tool[1] = "delete-tenant"
    /\ env[1].query.kind = "rejected" /\ env[1].end.kind = "rejected"
    /\ result[1].isError /\ result[1].text = <<"Connection terminated unexpectedly">>

\* The secrets invocation i deals with: the password of the credential it
\* obtained and the password written into the override it was called with.
Secrets(i) ==
    (IF Truthy(env[i].credential.data.password) THEN {env[i].credential.data.password} ELSE {})
        \cup { d.password : d \in { e \in OverrideDescriptors :
                                        args[i].connectionString = OverrideOf(e) } }

\* C19 (as claimed; the code violates it): nothing an invocation hands to the
\* logger holds the password of its connection descriptor, alone or inside a
\* connection string.
C19_SecretNeverLogged ==
    \A i \in Invocations : \A e \in logged[i] : \A secret \in Secrets(i) :
        ~Contains(e.value, secret)

\* C20 (as claimed; the code violates it): a POST to /messages is handed to
\* the tool layer only if it carries the token of a stream that is open when
\* it arrives; a POST with any other token, or arriving while no stream is
\* open, is answered 400 and handed to nothing.
C20_PostNeedsOpenSession ==
    post # NoPost
        => /\ post.to # 0 => post.token \in post.open
           /\ post.token \notin post.open => (post.status = 400 /\ post.to = 0)

\* The POST the model follows is past its guards and not yet finished.
PostInFlight == post.at \in {"handling", "dispatched"}

\* C21: an accepted POST /messages has exactly one response, the 202, from
\* the moment it is accepted: it is there before the message reaches the
\* server and before a result or error frame is emitted, and nothing is
\* written to the request after it, whether handlePostMessage resolves or
\* throws and whether or not the result ever comes.
C21_AckState == post.status = 202 => post.responses = <<202>>

C21_AckStep == PostInFlight => post'.responses = post.responses

C21_ExactlyOne202 == []C21_AckState /\ [][C21_AckStep]_vars

\* handlePostMessage threw after the acknowledgment, so the catch block that
\* could write a 500 has run.
C21_Witness == post.status = 202 /\ post.at = "failed" /\ post.errorTo # 0

\* C22 (as claimed; the code violates it): the result frame of an accepted
\* POST that carried a session token is emitted on no stream but the one with
\* that token, and once the result is written that stream has the frame
\* unless it is no longer open.
C22_ResultOnOwnStream ==
    /\ post.delivered # 0 /\ post.token # 0 => post.delivered = post.token
    /\ post.at = "done" /\ post.status = 202 /\ post.token \in OpenStreams
           => post.delivered = post.token

\* C23 (as claimed; the code violates it): while two or more streams are
\* open, a POST that carries the token of any one of them is accepted and
\* its message handed to that stream's transport.
C23_EachPeerKeepsItsSession ==
    Cardinality(post.open) >= 2 /\ post.token \in post.open
        => post.status = 202 /\ post.to = post.token

\* The peer of stream k disconnected, or a write to its response threw.
TornDown(k) == streams[k].peerGone \/ streams[k].failed

\* C24 (as claimed; the code violates it): once the peer of a stream has
\* disconnected or a write to the stream has failed, no POST that carries
\* the stream's token is accepted any more and no result frame or heartbeat
\* is written to the stream.
C24_AfterTeardown ==
    /\ (~PostInFlight /\ post'.at = "handling" /\ post'.token # 0)
           => ~TornDown(post'.token)
    /\ (post.at = "dispatched" /\ post'.delivered # 0)
           => ~TornDown(post'.delivered)
    /\ \A k \in 1..Len(streams) :
           (streams[k].beat = 0 /\ streams'[k].beat # 0) => ~TornDown(k)

C24_TornDownSessionReleased == [][C24_AfterTeardown]_vars

\* C25 (as claimed; the code violates it): a stream that is open and
\* connected has its heartbeat interval running, and a heartbeat written to
\* a stream comes from that stream's own interval.
C25_HeartbeatFromOwnTimer ==
    \A k \in 1..Len(streams) :
        /\ (Open(k) /\ streams[k].connect = "ok") => streams[k].timer
        /\ streams[k].beat \in {0, k}

\* stop() has returned or rejected.
StopSettled == stop.at \in {"closed", "skipped", "rejected"}

\* C26 (as claimed; the code violates it): when stop() has settled, no
\* event stream is open any more and server.close() has been called, also
\* when no stream was open and when closing failed.
C26_ShutdownClosesAll ==
    StopSettled => OpenStreams = {} /\ stop.at \in {"closed", "rejected"}

\* C27: when every awaited fetch, connect, query and end settles, every
\* execute-sql invocation returns: it has no result while it runs, gets one
\* in the step that finishes it, can always take its next step whatever the
\* other pipelined invocations are doing, and does finish.
C27_OneResultState ==
    \A i \in Invocations :
        /\ InFlight(i) => result[i] = NoResult /\ ENABLED AwaitSettles(i)
        /\ pc[i] = "done" => result[i] # NoResult

C27_OneResultStep ==
    \A i \in Invocations :
        (pc[i] = "done" /\ pc'[i] = "done") => result'[i] = result[i]

C27_EveryInvocationReturns ==
    /\ []C27_OneResultState
    /\ [][C27_OneResultStep]_vars
    /\ \A i \in Invocations : InFlight(i) ~> pc[i] = "done"

\* Two pipelined invocations, the second one finished while the first one is
\* still waiting for its connection.
C27_Witness ==
    /\ callNo[1] = 1 /\ pc[1] = "connect"
    /\ callNo[2] = 2 /\ pc[2] = "done" /\ calls[2].end = 1

\* C28 (as claimed; the code violates it): when client.end() rejects, the
\* invocation still returns what its try block or its inner catch had
\* returned: the rendered rows with isError false, or the query's error text.
C28_EndFailureKeepsOutcome ==
    \A i \in Invocations :
        (pc[i] = "done" /\ tool[i] \in SqlTools /\ env[i].end.kind = "rejected")
            => result[i] = pending[i]

\* C29 (as claimed; the code violates it): the 'close' event of one stream's
\* request closes no transport but that stream's own and leaves the
\* registration of another stream in place.
C29_OwnTransportOnly ==
    \A k \in 1..Len(streams) :
        (~streams[k].peerGone /\ streams'[k].peerGone)
            => \A j \in 1..Len(streams) \ {k} :
                   /\ streams'[j].closed = streams[j].closed
                   /\ transport = j => transport' = j

C29_DisconnectClosesOwnTransport == [][C29_OwnTransportOnly]_vars

\* C30 (as claimed; the code violates it): once server.connect has failed for
\* a stream, that stream's transport is not the registered one, so a POST is
\* never accepted for it.
C30_Unregistered ==
    \A k \in 1..Len(streams) : streams[k].connect = "failed" => transport # k

C30_Rejected ==
    (~PostInFlight /\ post'.at = "handling") => streams[post'.to].connect # "failed"

C30_NoSessionAfterFailedConnect == []C30_Unregistered /\ [][C30_Rejected]_vars

====
